---- MODULE Spec2Model ----
(***************************************************************************)
(* A model of snake.py: the Snake and Food classes and the Game            *)
(* controller's main loop (Game.run), its event handling, its collision    *)
(* checks and its game-over wait loop.                                     *)
(*                                                                         *)
(* Positions and directions are pairs <<x, y>>, as the tuples of the       *)
(* source.  The body is a sequence, head first (body[1] is Python's        *)
(* body[0]).  The rules depend on the grid only through its width and      *)
(* height, which the model carries as state fixed at Init: the full        *)
(* 30 x 24 grid for the end-to-end scenario, a scaled-down grid for the    *)
(* exhaustive exploration of the game loop.                                *)
(***************************************************************************)
EXTENDS Integers, Sequences, FiniteSets

\* --- Constants (snake.py 10-15) ---
SCREEN_WIDTH == 600
SCREEN_HEIGHT == 480
GRID_SIZE == 20
GRID_WIDTH == SCREEN_WIDTH \div GRID_SIZE
GRID_HEIGHT == SCREEN_HEIGHT \div GRID_SIZE

\* --- Bounds of the exploration ---
\* The grid of the exhaustively explored game.
SmallGridWidth == 3
SmallGridHeight == 2
\* The longest body a tick may produce.
MaxLen == 5
\* The most events one pygame.event.get() returns.
MaxBatch == 2
\* The most Snake method calls of the end-to-end scenario.
MaxCalls == 4

\* --- Directions (snake.py 24-27) ---
UP == <<0, -1>>
DOWN == <<0, 1>>
LEFT == <<-1, 0>>
RIGHT == <<1, 0>>
Directions == {UP, DOWN, LEFT, RIGHT}
\* No move has been made yet (history only).
NoDirection == <<0, 0>>

\* --- Events delivered by pygame.event.get() ---
\* QUIT, KEYDOWN with one of the four arrow keys, KEYDOWN with any other
\* key, and an event of any other type (KEYUP, mouse motion, ...).
ArrowKeys == {"K_UP", "K_DOWN", "K_LEFT", "K_RIGHT"}
KeyDown == ArrowKeys \cup {"K_OTHER"}
Events == {"QUIT", "OTHER"} \cup KeyDown
\* event.type
EventType(e) ==
    IF e = "QUIT" THEN "QUIT" ELSE IF e \in KeyDown THEN "KEYDOWN" ELSE "OTHER"
EventTypes == {EventType(e) : e \in Events}
NoEvent == "NONE"

VARIABLES
    grid_width,       \* GRID_WIDTH of the game being played
    grid_height,      \* GRID_HEIGHT of the game being played
    body,             \* Snake.body
    direction,        \* Snake.direction
    growth_pending,   \* Snake.growth_pending
    food,             \* Food.position
    score,            \* Game.score
    game_over,        \* Game.game_over
    waiting,          \* the local 'waiting' of _display_game_over
    pc,               \* where the process is
    events_left,      \* events of the current batch not yet iterated
    event_type,       \* event.type of the loop variable 'event'
    last_move,        \* history: the direction the last move() of this game used
    grew,             \* history: the last move() of this game kept the tail
    idle_ticks,       \* history: ticks of this game since its heading changed
    steered,          \* history: the heading of this game has changed
    tracking,         \* idle_ticks and steered are being recorded
    calls             \* history: the Snake methods a direct caller has called

vars == <<grid_width, grid_height, body, direction, growth_pending, food,
          score, game_over, waiting, pc, events_left, event_type, last_move,
          grew, idle_ticks, steered, tracking, calls>>

\* Everything the game rules own.
game_state == <<body, direction, growth_pending, food, score, game_over>>
\* What the game loop never writes.
loop_frame == <<grid_width, grid_height, tracking, calls>>
\* What a direct caller of the Snake methods never writes.
snake_frame == <<grid_width, grid_height, food, score, game_over, waiting,
                 pc, events_left, event_type, idle_ticks, steered,
                 tracking>>

Add(p, d) == <<p[1] + d[1], p[2] + d[2]>>
Opposite(d) == <<d[1] * (-1), d[2] * (-1)>>

\* The cells of a w x h grid.
Grid(w, h) == (0 .. w - 1) \X (0 .. h - 1)

\* Mutant of Centre: the two coordinates swapped.
Centre_Swapped(w, h) == <<h \div 2, w \div 2>>

\* Snake.__init__: the body of a new snake.
Centre(w, h) == <<w \div 2, h \div 2>>

\* Snake.get_head_position
get_head_position(b) == b[1]

\* Mutant of move: pop(0) for pop(), which removes the head, not the tail.
move_PopHead(b, d, gp) ==
    LET new_head == Add(b[1], d)
        rest == IF ~gp THEN SubSeq(b, 2, Len(b)) ELSE b
    IN [body |-> <<new_head>> \o rest,
        growth_pending |-> IF ~gp THEN gp ELSE FALSE]

\* Mutant of move: the pending-growth flag is never cleared.
move_KeepFlag(b, d, gp) ==
    LET new_head == Add(b[1], d)
        rest == IF ~gp THEN SubSeq(b, 1, Len(b) - 1) ELSE b
    IN [body |-> <<new_head>> \o rest, growth_pending |-> gp]

\* Mutant of move: the tail is popped whether or not growth is pending.
move_AlwaysPop(b, d, gp) ==
    LET new_head == Add(b[1], d)
    IN [body |-> <<new_head>> \o SubSeq(b, 1, Len(b) - 1),
        growth_pending |-> FALSE]

\* Snake.move: the new head is inserted in front; the tail is popped first
\* unless growth is pending, and then the flag is cleared instead.
move(b, d, gp) ==
    LET new_head == Add(b[1], d)
        rest == IF ~gp THEN SubSeq(b, 1, Len(b) - 1) ELSE b
    IN [body |-> <<new_head>> \o rest,
        growth_pending |-> IF ~gp THEN gp ELSE FALSE]

\* Mutant of change_direction: no test for the reverse of the heading.
change_direction_NoTest(d, new_direction) == new_direction

\* Snake.change_direction: the heading after change_direction(new_direction).
change_direction(d, new_direction) ==
    IF Opposite(new_direction) # d THEN new_direction ELSE d

\* The arrow key's direction (_handle_events, 112-119).
KeyDirection(e) ==
    CASE e = "K_UP" -> UP
      [] e = "K_DOWN" -> DOWN
      [] e = "K_LEFT" -> LEFT
      [] e = "K_RIGHT" -> RIGHT

\* Mutant of spawn_food: randint's upper limits taken as GRID_WIDTH and
\* GRID_HEIGHT, one past the last column and row.
spawn_food_Inclusive(w, h) == (0 .. w) \X (0 .. h)

\* Food.spawn_food: the positions random.randint can draw.
spawn_food(w, h) == (0 .. w - 1) \X (0 .. h - 1)

\* _check_collisions: the three tests on the head position.
FoodCollision(head_pos, f) == head_pos = f

\* Mutant of WallCollision: > for >= on the far walls.
WallCollision_OffByOne(head_pos, w, h) ==
    \/ head_pos[1] < 0
    \/ head_pos[1] > w
    \/ head_pos[2] < 0
    \/ head_pos[2] > h

WallCollision(head_pos, w, h) ==
    \/ head_pos[1] < 0
    \/ head_pos[1] >= w
    \/ head_pos[2] < 0
    \/ head_pos[2] >= h

\* Mutant of SelfCollision: the whole body, head included.
SelfCollision_WithHead(head_pos, b) ==
    \E i \in 1 .. Len(b) : b[i] = head_pos

\* Mutant of SelfCollision: body[1:-1], which leaves the tail out.
SelfCollision_SkipTail(head_pos, b) ==
    \E i \in 2 .. Len(b) - 1 : b[i] = head_pos

\* head_pos in self.snake.body[1:]
SelfCollision(head_pos, b) ==
    \E i \in 2 .. Len(b) : b[i] = head_pos

----
\* Game.__init__ -> reset_game: a new Snake, a new Food, score 0.
StartGame ==
    /\ grid_width = SmallGridWidth
    /\ grid_height = SmallGridHeight
    /\ body = <<Centre(grid_width, grid_height)>>
    /\ direction = RIGHT
    /\ growth_pending = FALSE
    /\ food \in spawn_food(grid_width, grid_height)
    /\ score = 0
    /\ game_over = FALSE
    /\ waiting = FALSE
    /\ pc = "run"
    /\ events_left = 0
    /\ event_type = NoEvent
    /\ last_move = NoDirection
    /\ grew = FALSE
    /\ idle_ticks = 0
    /\ steered = FALSE
    /\ calls = <<>>

\* The game, without the record of idle ticks.
Init == StartGame /\ tracking = FALSE

\* The game, with the ticks since the last change of heading recorded.
IdleInit == StartGame /\ tracking = TRUE

\* Game.reset_game
reset_game ==
    /\ body' = <<Centre(grid_width, grid_height)>>
    /\ direction' = RIGHT
    /\ growth_pending' = FALSE
    /\ food' \in spawn_food(grid_width, grid_height)
    /\ score' = 0
    /\ game_over' = FALSE
    /\ last_move' = NoDirection
    /\ grew' = FALSE
    /\ idle_ticks' = 0
    /\ steered' = FALSE

\* Mutant of Quit: sys.exit() is missing and the loop goes on.
Quit_NoExit ==
    /\ pc' = pc
    /\ UNCHANGED <<game_state, waiting, last_move, grew, idle_ticks,
                   steered>>

\* pygame.quit(); sys.exit(): the process ends where it stands.
Quit ==
    /\ pc' = "exited"
    /\ UNCHANGED <<game_state, waiting, last_move, grew, idle_ticks,
                   steered>>

\* run, line 178 -> _handle_events, line 107: pygame.event.get() returns
\* the batch of queued events.
PollEvents ==
    /\ pc = "run"
    /\ pc' = "handle_events"
    /\ events_left' \in 0 .. MaxBatch
    /\ UNCHANGED <<game_state, waiting, event_type, last_move, grew,
                 idle_ticks, steered, loop_frame>>

\* _handle_events, one iteration of the for loop.
HandleEvent ==
    /\ pc = "handle_events"
    /\ events_left > 0
    /\ events_left' = events_left - 1
    /\ UNCHANGED loop_frame
    /\ \E e \in Events :
        /\ event_type' = EventType(e)
        /\ IF e = "QUIT"
           THEN Quit
           ELSE /\ pc' = pc
                /\ direction' = IF e \in ArrowKeys
                                THEN change_direction(direction, KeyDirection(e))
                                ELSE direction
                /\ idle_ticks' =
                     IF tracking /\ ~game_over /\ direction' # direction
                     THEN 0
                     ELSE idle_ticks
                /\ steered' =
                     (steered \/ (tracking /\ ~game_over /\ direction' # direction))
                /\ UNCHANGED <<body, growth_pending, food, score, game_over,
                               waiting, last_move, grew>>

\* Mutant of Tick: run() without the test of game_over, so that a finished
\* game goes on moving.
Tick_NoGuard ==
    /\ pc = "handle_events"
    /\ events_left = 0
    /\ Len(body) + (IF growth_pending THEN 1 ELSE 0) <= MaxLen
    /\ LET m == move(body, direction, growth_pending)
           head_pos == get_head_position(m.body)
           eaten == FoodCollision(head_pos, food)
       IN /\ body' = m.body
          /\ last_move' = direction
          /\ grew' = growth_pending
          /\ idle_ticks' = IF tracking THEN idle_ticks + 1 ELSE idle_ticks
          /\ growth_pending' = IF eaten THEN TRUE ELSE m.growth_pending
          /\ score' = IF eaten THEN score + 10 ELSE score
          /\ IF eaten
             THEN food' \in spawn_food(grid_width, grid_height)
             ELSE food' = food
          /\ game_over' = IF \/ WallCollision(head_pos, grid_width, grid_height)
                             \/ SelfCollision(head_pos, m.body)
                          THEN TRUE
                          ELSE game_over
    /\ pc' = "run"
    /\ event_type' = NoEvent
    /\ UNCHANGED <<direction, waiting, events_left, steered, loop_frame>>

\* Mutant of Tick: the three collision tests chained with elif, so that a
\* food collision skips the wall and self tests.
Tick_ElseIf ==
    /\ pc = "handle_events"
    /\ events_left = 0
    /\ ~game_over
    /\ Len(body) + (IF growth_pending THEN 1 ELSE 0) <= MaxLen
    /\ LET m == move(body, direction, growth_pending)
           head_pos == get_head_position(m.body)
           eaten == FoodCollision(head_pos, food)
       IN /\ body' = m.body
          /\ last_move' = direction
          /\ grew' = growth_pending
          /\ idle_ticks' = IF tracking THEN idle_ticks + 1 ELSE idle_ticks
          /\ growth_pending' = IF eaten THEN TRUE ELSE m.growth_pending
          /\ score' = IF eaten THEN score + 10 ELSE score
          /\ IF eaten
             THEN food' \in spawn_food(grid_width, grid_height)
             ELSE food' = food
          /\ game_over' = IF /\ ~eaten
                             /\ \/ WallCollision(head_pos, grid_width, grid_height)
                                \/ SelfCollision(head_pos, m.body)
                          THEN TRUE
                          ELSE game_over
    /\ pc' = "run"
    /\ event_type' = NoEvent
    /\ UNCHANGED <<direction, waiting, events_left, steered, loop_frame>>

\* run, lines 180-183 and 187-188: the tick of a running game.
Tick ==
    /\ pc = "handle_events"
    /\ events_left = 0
    /\ ~game_over
    /\ Len(body) + (IF growth_pending THEN 1 ELSE 0) <= MaxLen
    /\ LET m == move(body, direction, growth_pending)
           head_pos == get_head_position(m.body)
           eaten == FoodCollision(head_pos, food)
       IN /\ body' = m.body
          /\ last_move' = direction
          /\ grew' = growth_pending
          /\ idle_ticks' = IF tracking THEN idle_ticks + 1 ELSE idle_ticks
          /\ growth_pending' = IF eaten THEN TRUE ELSE m.growth_pending
          /\ score' = IF eaten THEN score + 10 ELSE score
          /\ IF eaten
             THEN food' \in spawn_food(grid_width, grid_height)
             ELSE food' = food
          /\ game_over' = IF \/ WallCollision(head_pos, grid_width, grid_height)
                             \/ SelfCollision(head_pos, m.body)
                          THEN TRUE
                          ELSE game_over
    /\ pc' = "run"
    /\ event_type' = NoEvent
    /\ UNCHANGED <<direction, waiting, events_left, steered, loop_frame>>

\* run, line 185 -> _display_game_over, lines 165-167: the first poll of
\* the wait loop.
DisplayGameOver ==
    /\ pc = "handle_events"
    /\ events_left = 0
    /\ game_over
    /\ waiting' = TRUE
    /\ pc' = "wait_events"
    /\ events_left' \in 0 .. MaxBatch
    /\ event_type' = NoEvent
    /\ UNCHANGED <<game_state, last_move, grew, idle_ticks, steered,
                 loop_frame>>

\* _display_game_over, one iteration of the for loop, which reads only
\* event.type.
WaitEvent ==
    /\ pc = "wait_events"
    /\ events_left > 0
    /\ events_left' = events_left - 1
    /\ UNCHANGED loop_frame
    /\ \E t \in EventTypes :
        /\ event_type' = t
        /\ IF t = "QUIT"
           THEN Quit
           ELSE /\ pc' = pc
                /\ IF t = "KEYDOWN"
                   THEN reset_game /\ waiting' = FALSE
                   ELSE UNCHANGED <<game_state, waiting, last_move, grew,
                                    idle_ticks, steered>>

\* _display_game_over, line 166: the batch is exhausted; poll again while
\* waiting, else return to run (lines 187-188).
WaitLoop ==
    /\ pc = "wait_events"
    /\ events_left = 0
    /\ IF waiting
       THEN /\ events_left' \in 0 .. MaxBatch
            /\ pc' = pc
       ELSE /\ events_left' = 0
            /\ pc' = "run"
    /\ event_type' = NoEvent
    /\ UNCHANGED <<game_state, waiting, last_move, grew, idle_ticks,
                 steered, loop_frame>>

Next ==
    \/ PollEvents
    \/ HandleEvent
    \/ Tick
    \/ DisplayGameOver
    \/ WaitEvent
    \/ WaitLoop

Spec == Init /\ [][Next]_vars

IdleSpec == IdleInit /\ [][Next]_vars

----
\* A Snake driven directly through its methods, on the full-size grid, with
\* no Game and no Food around it.  calls records the methods called.
NoFood == <<>>
MoveCall == [op |-> "move", arg |-> NoDirection]
GrowCall == [op |-> "grow", arg |-> NoDirection]
ChangeDirectionCall(d) == [op |-> "change_direction", arg |-> d]

\* Snake.__init__
SnakeInit ==
    /\ grid_width = GRID_WIDTH
    /\ grid_height = GRID_HEIGHT
    /\ body = <<Centre(grid_width, grid_height)>>
    /\ direction = RIGHT
    /\ growth_pending = FALSE
    /\ food = NoFood
    /\ score = 0
    /\ game_over = FALSE
    /\ waiting = FALSE
    /\ pc = "snake"
    /\ events_left = 0
    /\ event_type = NoEvent
    /\ last_move = NoDirection
    /\ grew = FALSE
    /\ idle_ticks = 0
    /\ steered = FALSE
    /\ tracking = FALSE
    /\ calls = <<>>

\* snake.move()
CallMove ==
    /\ Len(calls) < MaxCalls
    /\ calls' = Append(calls, MoveCall)
    /\ LET m == move(body, direction, growth_pending)
       IN /\ body' = m.body
          /\ growth_pending' = m.growth_pending
    /\ last_move' = direction
    /\ grew' = growth_pending
    /\ UNCHANGED <<direction, snake_frame>>

\* snake.grow()
CallGrow ==
    /\ Len(calls) < MaxCalls
    /\ calls' = Append(calls, GrowCall)
    /\ growth_pending' = TRUE
    /\ UNCHANGED <<body, direction, last_move, grew, snake_frame>>

\* snake.change_direction(d)
CallChangeDirection ==
    /\ Len(calls) < MaxCalls
    /\ \E d \in Directions :
        /\ calls' = Append(calls, ChangeDirectionCall(d))
        /\ direction' = change_direction(direction, d)
    /\ UNCHANGED <<body, growth_pending, last_move, grew, snake_frame>>

SnakeNext ==
    \/ CallMove
    \/ CallGrow
    \/ CallChangeDirection

SnakeSpec == SnakeInit /\ [][SnakeNext]_vars

----
\* The properties.

\* A step of the game loop that is the tick of a running game: move(), then
\* _check_collisions().
TickStep == pc = "handle_events" /\ pc' = "run"

\* A step that iterates one event of the for loop of _handle_events, and
\* one of the for loop of _display_game_over.
HandleStep == pc = "handle_events" /\ events_left' = events_left - 1
WaitStep == pc = "wait_events" /\ events_left' = events_left - 1

\* C1: whenever the head lies one cell past a wall (x = -1, x = GRID_WIDTH,
\* y = -1 or y = GRID_HEIGHT), the game-over flag is true: the tick that
\* moved the head there set it.
C1_WallCollision ==
    ( \/ body[1][1] = -1
      \/ body[1][1] = grid_width
      \/ body[1][2] = -1
      \/ body[1][2] = grid_height ) => game_over

\* A tick has moved the head through the left wall, after a turn.
C1_Witness ==
    /\ pc = "run"
    /\ body[1][1] = -1
    /\ last_move = LEFT
    /\ game_over

\* C2: whenever the head position equals the position of another body
\* segment, the game-over flag is true: the tick that moved the head
\* there set it.
C2_SelfCollision ==
    (\E i \in 2 .. Len(body) : body[i] = body[1]) => game_over

\* A tick has moved the head, inside the grid, onto another segment.
C2_Witness ==
    /\ pc = "run"
    /\ body[1] \in Grid(grid_width, grid_height)
    /\ \E i \in 2 .. Len(body) : body[i] = body[1]
    /\ game_over

\* C3: a tick whose moved head equals the food position adds exactly 10 to
\* the score, sets the pending-growth flag and draws the food anew inside
\* the grid; any other tick leaves the score and the food alone and the
\* pending-growth flag as move() left it, which is false.
C3_FoodCollision ==
    [][TickStep =>
        IF body'[1] = food
        THEN /\ score' = score + 10
             /\ growth_pending' = TRUE
             /\ food' \in Grid(grid_width, grid_height)
        ELSE /\ score' = score
             /\ food' = food
             /\ growth_pending' = FALSE]_vars

\* Food has been eaten and the new food drawn onto the cell of the old one,
\* which the head occupies: no cell is excluded from the draw.
C3_Witness ==
    /\ pc = "run"
    /\ growth_pending
    /\ score = 10
    /\ food = body[1]

\* C4: change_direction(d) leaves the heading as it is when d is the exact
\* opposite of the heading and sets the heading to d otherwise; the body
\* and the pending-growth flag are unchanged either way.
C4_ChangeDirection ==
    [][(/\ Len(calls') = Len(calls) + 1
        /\ calls'[Len(calls')].op = "change_direction")
       => LET d == calls'[Len(calls')].arg
          IN /\ direction' = (IF d = Opposite(direction) THEN direction ELSE d)
             /\ body' = body
             /\ growth_pending' = growth_pending]_vars

\* change_direction was called with the opposite of the heading, on a
\* snake of two segments, and the heading stayed.
C4_Witness ==
    /\ calls # <<>>
    /\ calls[Len(calls)].op = "change_direction"
    /\ calls[Len(calls)].arg = Opposite(direction)
    /\ Len(body) = 2

\* C5 (as claimed): the direction a move() uses is never the exact opposite
\* of the direction the preceding move() of the same game used.
C5_NoReverse ==
    [][TickStep => direction # Opposite(last_move)]_vars

\* A step that is a reset_game() of the wait loop: a KEYDOWN event there.
ResetStep == WaitStep /\ event_type' = "KEYDOWN"

\* C6: between resets the body length never decreases; it grows, by
\* exactly 1, on the move() of a tick that finds growth pending and is
\* unchanged by every other step; the pending-growth flag becomes set only
\* on a tick that consumes food (score + 10) and stays set until the next
\* move().
C6_Length ==
    [][~ResetStep =>
        /\ Len(body') = Len(body) + (IF TickStep /\ growth_pending THEN 1 ELSE 0)
        /\ (growth_pending' /\ ~growth_pending)
              => (TickStep /\ body'[1] = food /\ score' = score + 10)
        /\ (growth_pending /\ ~TickStep) => growth_pending']_vars

\* The move() after a food consumption has just lengthened a body of two
\* segments to three.
C6_Witness ==
    /\ pc = "run"
    /\ grew
    /\ Len(body) = 3
    /\ ~game_over

\* C7 (as claimed): the move() after grow() shifts every pre-existing
\* segment by the heading vector.
C7_AllShift ==
    [][(TickStep /\ growth_pending) =>
        \A i \in 1 .. Len(body) : body'[i] = Add(body[i], direction)]_vars

\* C7 (amended): the move() after grow() puts the old head plus the heading
\* vector in front and keeps every pre-existing segment where it was, one
\* index further back; the body is one longer.
C7_GrowMove ==
    [][(TickStep /\ growth_pending) =>
        /\ Len(body') = Len(body) + 1
        /\ body'[1] = Add(body[1], direction)
        /\ \A i \in 1 .. Len(body) : body'[i + 1] = body[i]]_vars

\* A move() after grow() has just lengthened a body to three segments that
\* do not lie in one line.
C7_Witness ==
    /\ pc = "run"
    /\ grew
    /\ Len(body) = 3
    /\ body[1][1] # body[3][1]
    /\ body[1][2] # body[3][2]

\* C8 (as claimed): every key event iterated while the game-over flag is
\* true resets the game: score 0, a single segment at the grid centre,
\* heading RIGHT, no pending growth, a fresh food, flag false.
C8_AnyKeyResets ==
    [][(/\ game_over
        /\ HandleStep \/ WaitStep
        /\ event_type' = "KEYDOWN")
       => /\ score' = 0
          /\ body' = <<Centre(grid_width, grid_height)>>
          /\ direction' = RIGHT
          /\ growth_pending' = FALSE
          /\ food' \in Grid(grid_width, grid_height)
          /\ game_over' = FALSE]_vars

\* The calls of the end-to-end scenario.
ThreeMoves == <<MoveCall, MoveCall, MoveCall>>
GrowBeforeThird == <<MoveCall, MoveCall, GrowCall, MoveCall>>

\* C9: on the 30 x 24 grid a new snake has body [(15,12)] and heads RIGHT;
\* three move() calls give [(18,12)]; the same with a grow() just before
\* the third give [(18,12), (17,12)].
C9_EndToEnd ==
    /\ grid_width = 30
    /\ grid_height = 24
    /\ calls = <<>> => (body = << <<15, 12>> >> /\ direction = RIGHT)
    /\ calls = ThreeMoves => body = << <<18, 12>> >>
    /\ calls = GrowBeforeThird => body = << <<18, 12>>, <<17, 12>> >>

\* The scenario with the grow() has been run to its end.
C9_Witness ==
    /\ calls = GrowBeforeThird
    /\ body = << <<18, 12>>, <<17, 12>> >>

\* C10: iterating a QUIT event, in _handle_events or in the wait loop, ends
\* the process with the game state as it was, and nothing happens after
\* the process has ended, whatever is left in the batch.
C10_Quit ==
    [][/\ ((HandleStep \/ WaitStep) /\ event_type' = "QUIT")
          => (pc' = "exited" /\ UNCHANGED game_state)
       /\ pc # "exited"]_vars

\* The process has ended on a QUIT of the wait loop with an event of the
\* same batch left behind it.
C10_Witness ==
    /\ pc = "exited"
    /\ event_type = "QUIT"
    /\ game_over
    /\ events_left > 0

\* One unit step apart: |dx| + |dy| = 1.
Adjacent(p, q) ==
    LET dx == IF p[1] >= q[1] THEN p[1] - q[1] ELSE q[1] - p[1]
        dy == IF p[2] >= q[2] THEN p[2] - q[2] ELSE q[2] - p[2]
    IN dx + dy = 1

\* C11: the body is never empty and any two consecutive segments are one
\* unit step apart, in every state of a running or finished game.
C11_BodyInvariant ==
    /\ Len(body) >= 1
    /\ \A i \in 1 .. Len(body) - 1 : Adjacent(body[i], body[i + 1])

\* A game has ended on the move() that applied growth, with a body of at
\* least three segments.
C11_Witness ==
    /\ pc = "run"
    /\ game_over
    /\ grew
    /\ Len(body) >= 3

\* C12 (as claimed): the food and every snake segment, the head included,
\* lie inside the grid.
C12_AllInRange ==
    /\ food \in Grid(grid_width, grid_height)
    /\ \A i \in 1 .. Len(body) : body[i] \in Grid(grid_width, grid_height)

\* C12 (amended): the food and every segment behind the head lie inside
\* the grid; so does the head while the game-over flag is false, and a
\* head outside the grid is exactly one cell past a wall.
C12_InRange ==
    /\ food \in Grid(grid_width, grid_height)
    /\ \A i \in 2 .. Len(body) : body[i] \in Grid(grid_width, grid_height)
    /\ ~game_over => body[1] \in Grid(grid_width, grid_height)
    /\ body[1] \in (-1 .. grid_width) \X (-1 .. grid_height)
    /\ body[1][1] \in 0 .. grid_width - 1 \/ body[1][2] \in 0 .. grid_height - 1

\* A snake of several segments has put its head through the bottom wall.
C12_Witness ==
    /\ game_over
    /\ Len(body) >= 2
    /\ body[1][2] = grid_height

\* C13: on a tick whose moved head equals the food position and also the
\* position of another body segment, the score still rises by exactly 10
\* and the game-over flag becomes true.
C13_AllChecksRun ==
    [][(/\ TickStep
        /\ body'[1] = food
        /\ \E i \in 2 .. Len(body') : body'[i] = body'[1])
       => (score' = score + 10 /\ game_over' = TRUE)]_vars

\* Such a tick has happened: the game is over with the head on another
\* segment and with the growth of the food just eaten still pending.
C13_Witness ==
    /\ pc = "run"
    /\ game_over
    /\ growth_pending
    /\ score = 10 * (Len(body) - 1) + 10
    /\ \E i \in 2 .. Len(body) : body[i] = body[1]

\* C14 (as claimed): a tick can fire both the food branch and the wall
\* branch.  Both test the same head position, so the food must then lie
\* outside the grid: some position spawn_food can draw collides with a wall.
C14_FoodBeyondWall ==
    \E f \in spawn_food(grid_width, grid_height) :
        WallCollision(f, grid_width, grid_height)

\* C14 (amended): no tick fires both: on a tick whose moved head lies
\* outside the grid the head is not on the food, and the score and the food
\* are unchanged.
C14_NeverBoth ==
    [][(TickStep /\ WallCollision(body'[1], grid_width, grid_height))
       => /\ body'[1] # food
          /\ score' = score
          /\ food' = food
          /\ growth_pending' = FALSE]_vars

\* A tick has put the head through a wall right after a food was eaten
\* and redrawn onto the cell the head has now left.
C14_Witness ==
    /\ pc = "run"
    /\ game_over
    /\ WallCollision(body[1], grid_width, grid_height)
    /\ grew
    /\ food = body[2]

\* A sequence without its last element.
ButLast(s) == [i \in 1 .. Len(s) - 1 |-> s[i]]

\* C15: move() with head h and heading d gives [h + d] followed by the old
\* body without its last segment when no growth is pending, and [h + d]
\* followed by the whole old body when growth is pending; afterwards no
\* growth is pending and the heading is as before.  So the length rises by
\* exactly 1 on the move() after a grow() and not on the one after that.
C15_Move ==
    [][(/\ Len(calls') = Len(calls) + 1
        /\ calls'[Len(calls')] = MoveCall)
       => /\ body' = <<Add(body[1], direction)>>
                        \o (IF growth_pending THEN body ELSE ButLast(body))
          /\ Len(body') = Len(body) + (IF growth_pending THEN 1 ELSE 0)
          /\ growth_pending' = FALSE
          /\ direction' = direction]_vars

\* grow(), move(), move() have been called in a row: the first move()
\* made the body two long and the second left it so.
C15_Witness ==
    /\ Len(calls) >= 3
    /\ calls[Len(calls) - 2] = GrowCall
    /\ calls[Len(calls) - 1] = MoveCall
    /\ calls[Len(calls)] = MoveCall
    /\ Len(body) = 2
    /\ ~grew

\* C16: a body of one or two segments never has its head on another
\* segment, so with such a body the game-over flag is true only when the
\* head lies outside the grid: the self-collision test has not set it.
C16_NoSpuriousGameOver ==
    Len(body) <= 2 =>
        /\ \A i \in 2 .. Len(body) : body[i] # body[1]
        /\ game_over => WallCollision(body[1], grid_width, grid_height)

\* The move() that applied growth from one segment to two has run, after
\* a turn, and the game goes on.
C16_Witness ==
    /\ pc = "run"
    /\ grew
    /\ Len(body) = 2
    /\ last_move # RIGHT
    /\ ~game_over

\* C17: the body length, plus 1 when growth is pending, equals
\* 1 + score / 10; the score is a non-negative multiple of 10.
C17_ScoreLength ==
    /\ score >= 0
    /\ score % 10 = 0
    /\ Len(body) + (IF growth_pending THEN 1 ELSE 0) = 1 + score \div 10

\* Two foods have been eaten, the second one on the move() that applied
\* the growth of the first.
C17_Witness ==
    /\ score = 20
    /\ Len(body) = 2
    /\ growth_pending
    /\ grew

\* The head lies outside the grid, or on another body segment.
HeadCollides(b, w, h) ==
    \/ b[1] \notin Grid(w, h)
    \/ \E i \in 2 .. Len(b) : b[i] = b[1]

\* C18: the game-over flag is true exactly when the head lies outside the
\* grid or on another body segment; only a tick sets it and only a reset
\* clears it.
C18_FlagExact ==
    [][/\ game_over <=> HeadCollides(body, grid_width, grid_height)
       /\ game_over' <=> HeadCollides(body', grid_width, grid_height)
       /\ (~game_over /\ game_over') => TickStep
       /\ (game_over /\ ~game_over') => ResetStep]_vars

\* The wait loop is polling with the flag set by a self collision inside
\* the grid.
C18_Witness ==
    /\ pc = "wait_events"
    /\ waiting
    /\ game_over
    /\ body[1] \in Grid(grid_width, grid_height)

\* C19: while the game-over flag is true, every step but the reset leaves
\* the body, the pending-growth flag, the score, the food and the flag
\* itself as they are: no move() and no collision check runs.
C19_Frozen ==
    [][(game_over /\ ~ResetStep)
       => /\ UNCHANGED <<body, growth_pending, score, food, last_move, grew>>
          /\ game_over' = TRUE]_vars

\* An arrow key has arrived after the fatal tick and turned the heading
\* of the finished game's snake, and the wait loop has then polled.
C19_Witness ==
    /\ pc = "wait_events"
    /\ game_over
    /\ direction # last_move
    /\ Len(body) >= 2

\* The most ticks a heading can last: the grid's extent along it.
TickLimit(d, w, h) == IF d[1] # 0 THEN w ELSE h

\* C20: a game whose heading no longer changes ends: while the flag is
\* false fewer than GRID_WIDTH ticks (heading horizontal) or GRID_HEIGHT
\* ticks (heading vertical) have passed since the heading last changed,
\* and never more than that many; a game whose heading has not changed
\* since the reset is over exactly from tick GRID_WIDTH - GRID_WIDTH // 2.
C20_LeftAloneEnds ==
    /\ idle_ticks > 0 =>
          /\ idle_ticks <= TickLimit(last_move, grid_width, grid_height)
          /\ ~game_over =>
                idle_ticks < TickLimit(last_move, grid_width, grid_height)
    /\ ~steered =>
          /\ idle_ticks <= grid_width - grid_width \div 2
          /\ game_over <=> idle_ticks = grid_width - grid_width \div 2

\* A snake turned to the right in the leftmost column and then left alone
\* has crossed the whole grid and ended the game on tick GRID_WIDTH.
C20_Witness ==
    /\ pc = "run"
    /\ game_over
    /\ steered
    /\ last_move = RIGHT
    /\ idle_ticks = grid_width

====
